---- MODULE Spec2Model ----
(***************************************************************************)
(* Order / review / cart reconciliation logic of the community-feast       *)
(* marketplace: the browser sessions (producer dashboard, admin dashboard, *)
(* order history, review forms, marketplace, product page, cart page), the *)
(* tables they write (orders, order_items, reviews, products,              *)
(* producer_profiles), the per-user localStorage cart and the              *)
(* create-payment function.                                                *)
(***************************************************************************)
EXTENDS Integers, Sequences, FiniteSets, TLC

VARIABLES
    products,        \* table products: id -> row
    orders,          \* table orders: sequence of rows, id = index
    order_items,     \* table order_items: sequence of rows
    reviews,         \* table reviews: sequence of rows
    producer_profiles, \* table producer_profiles: id -> [rating, review_count]
    producerView,    \* ProducerDashboard state `orders`, per producer session
    showReviewForm,  \* OrderHistory state `showReviewForm`, per consumer
    rating,          \* the rating state of the review form a consumer has open
    submitPc,        \* position of a consumer's ReviewForm.submitReview call
    submitRead,      \* ratings read by that call (`reviews` local)
    cart,            \* localStorage entry cart_<user id>: the cart lines
    page,            \* the page a consumer's browser tab shows
    marketView,      \* Marketplace state `products`
    pdProduct,       \* ProductDetails state `product`
    pdQuantity,      \* ProductDetails state `quantity`
    cartItems,       \* Cart state `cartItems`
    deliveryMethod,  \* Cart state `deliveryMethod`
    deliveryAddress, \* Cart state `deliveryAddress`
    sessions,        \* checkout sessions create-payment made at the processor
    admin_settings,  \* table admin_settings: key -> value (text)
    addProduct,      \* AddProduct page of a producer: commissionRate, price
    paid,            \* the checkout sessions (indices) that were paid
    legacyCart,      \* localStorage entry 'cart' of the browser
    response,        \* the last response create-payment sent to a consumer's client
    product_images,  \* table product_images of one product: id -> is_primary
    images,          \* ProductImageManager state `images`
    loading          \* PaymentSuccess state `loading`

cartVars == <<cart, page, marketView, pdProduct, pdQuantity, cartItems,
              deliveryMethod, deliveryAddress, sessions>>

platformVars == <<admin_settings, addProduct, paid>>

otherVars == <<legacyCart, response, product_images, images, loading>>

vars == <<products, orders, order_items, reviews, producer_profiles,
          producerView, showReviewForm, rating, submitPc, submitRead,
          cart, page, marketView, pdProduct, pdQuantity, cartItems,
          deliveryMethod, deliveryAddress, sessions,
          admin_settings, addProduct, paid,
          legacyCart,
          response,
          product_images,
          images,
          loading>>

reviewVars == <<producerView, showReviewForm, rating, submitPc, submitRead>>

----------------------------------------------------------------------------
(* Bounds of the model *)

MaxOrders == 2      \* rows the orders table may hold
MaxReviews == 2     \* rows the reviews table may hold
MaxQty == 3         \* most units a cart is filled with
MaxSessions == 1    \* checkout sessions created

(* Users and catalogue the sessions work on *)

NULL == "null"
NoOrder == 0
Consumers == {"c1", "c2"}
Producers == {"p1", "p2", "p3"}
SeedProducts == {"a", "b", "m"}
\* the producers with a dashboard session open
DashboardProducers == {"p1"}
\* the consumers that shop, and the addresses they type
Shoppers == {"c1"}
Addresses == {"", " ", "Wola 1"}
\* what the review forms of the product and producer pages are used on
ReviewedProducers == {"p1", "p3"}
ReviewedProducts == {"a"}

\* the star buttons of the review forms, and the ones the consumers click
Stars == 1..5
StarsClicked == {1, 5}
\* the consumer who reviews from the product page and the producer page
PageReviewers == {"c2"}

\* the items of the admin dashboard's status Select
AdminStatuses ==
    {"pending", "confirmed", "preparing", "ready", "completed", "cancelled"}

----------------------------------------------------------------------------
(* Helpers *)

RECURSIVE SumSeq(_)
SumSeq(s) == IF s = <<>> THEN 0 ELSE Head(s) + SumSeq(Tail(s))

\* the optional delivery_fee column: <<>> when absent, <<fee>> otherwise
FeeOf(o) == IF o.delivery_fee = <<>> THEN 0 ELSE o.delivery_fee[1]

ItemsOf(oid) == SelectSeq(order_items, LAMBDA it : it.order_id = oid)

RECURSIVE LinesTotal(_)
LinesTotal(items) ==
    IF items = <<>> THEN 0
    ELSE Head(items).quantity * Head(items).price_per_unit
         + LinesTotal(Tail(items))

Min(a, b) == IF a < b THEN a ELSE b
Max(a, b) == IF a > b THEN a ELSE b

\* a row of products as a page holds it; NoProduct: `product` is null
ProductView(id, row) ==
    [id |-> id, producer_id |-> row.producer_id, price |-> row.price,
     stock_quantity |-> row.stock_quantity,
     made_to_order |-> row.made_to_order, is_available |-> row.is_available]

NoProduct ==
    [id |-> NULL, producer_id |-> NULL, price |-> 0, stock_quantity |-> 0,
     made_to_order |-> FALSE, is_available |-> FALSE]

\* showReviewForm = null: no order review form is shown
NoForm == [orderId |-> NoOrder, productId |-> NULL, producerId |-> NULL]

----------------------------------------------------------------------------
(* Initial state: the catalogue and the orders the dashboards find.        *)
(* Amounts are in grosz (1/100 PLN).                                       *)

InitProducts ==
    [id \in SeedProducts |->
        CASE id = "a" -> [producer_id |-> "p1", price |-> 10000,
                          stock_quantity |-> 2, made_to_order |-> FALSE,
                          is_available |-> TRUE]
          [] id = "b" -> [producer_id |-> "p2", price |-> 5000,
                          stock_quantity |-> 1, made_to_order |-> FALSE,
                          is_available |-> TRUE]
          [] id = "m" -> [producer_id |-> "p1", price |-> 3000,
                          stock_quantity |-> 0, made_to_order |-> TRUE,
                          is_available |-> TRUE]]

InitOrders ==
    << [consumer_id |-> "c1", producer_id |-> "p1", total_amount |-> 21500,
        status |-> "pending", delivery_method |-> "delivery",
        delivery_fee |-> <<1500>>] >>

InitOrderItems ==
    << [order_id |-> 1, product_id |-> "a", quantity |-> 2,
        price_per_unit |-> 10000] >>

\* the rows the migrations seed that hold a commission percentage
InitAdminSettings ==
    [key \in {"transaction_fee_percent", "commission_rate"} |->
        IF key = "transaction_fee_percent" THEN "12" ELSE "5"]

\* AddProduct before it is mounted; commissionRate starts at 12
NoAddProduct == [open |-> FALSE, commissionRate |-> 12, price |-> 0]

Init ==
    /\ products = InitProducts
    /\ orders = InitOrders
    /\ order_items = InitOrderItems
    /\ reviews = <<>>
    /\ producer_profiles =
          [p \in Producers |-> [rating |-> <<0, 1>>, review_count |-> 0]]
    /\ producerView = [p \in Producers |-> <<>>]
    /\ showReviewForm = [c \in Consumers |-> NoForm]
    /\ rating = [c \in Consumers |-> 0]
    /\ submitPc = [c \in Consumers |-> "idle"]
    /\ submitRead = [c \in Consumers |-> <<>>]
    /\ cart = [c \in Consumers |-> <<>>]
    /\ page = [c \in Consumers |-> "none"]
    /\ marketView = [c \in Consumers |-> <<>>]
    /\ pdProduct = [c \in Consumers |-> NoProduct]
    /\ pdQuantity = [c \in Consumers |-> 1]
    /\ cartItems = [c \in Consumers |-> <<>>]
    /\ deliveryMethod = [c \in Consumers |-> "pickup"]
    /\ deliveryAddress = [c \in Consumers |-> ""]
    /\ sessions = <<>>
    /\ admin_settings = InitAdminSettings
    /\ addProduct = [p \in Producers |-> NoAddProduct]
    /\ paid = {}
    /\ legacyCart = <<>>
    /\ response = [c \in Consumers |-> "none"]
    /\ product_images = [i \in {} |-> FALSE]
    /\ images = [i \in {} |-> FALSE]
    /\ loading = [c \in Consumers |-> TRUE]

\* orders of two consumers with the same producer, both completed, as the
\* order history of each shows them with a Write Review button
CompletedOrders ==
    << [consumer_id |-> "c1", producer_id |-> "p1", total_amount |-> 21500,
        status |-> "completed", delivery_method |-> "delivery",
        delivery_fee |-> <<1500>>],
       [consumer_id |-> "c2", producer_id |-> "p1", total_amount |-> 3000,
        status |-> "completed", delivery_method |-> "pickup",
        delivery_fee |-> <<>>] >>

CompletedOrderItems ==
    << [order_id |-> 1, product_id |-> "a", quantity |-> 2,
        price_per_unit |-> 10000],
       [order_id |-> 2, product_id |-> "m", quantity |-> 1,
        price_per_unit |-> 3000] >>

\* the state in which two consumers can each review producer p1
InitCompleted ==
    /\ products = InitProducts
    /\ orders = CompletedOrders
    /\ order_items = CompletedOrderItems
    /\ reviews = <<>>
    /\ producer_profiles =
          [p \in Producers |-> [rating |-> <<0, 1>>, review_count |-> 0]]
    /\ producerView = [p \in Producers |-> <<>>]
    /\ showReviewForm = [c \in Consumers |-> NoForm]
    /\ rating = [c \in Consumers |-> 0]
    /\ submitPc = [c \in Consumers |-> "idle"]
    /\ submitRead = [c \in Consumers |-> <<>>]
    /\ cart = [c \in Consumers |-> <<>>]
    /\ page = [c \in Consumers |-> "none"]
    /\ marketView = [c \in Consumers |-> <<>>]
    /\ pdProduct = [c \in Consumers |-> NoProduct]
    /\ pdQuantity = [c \in Consumers |-> 1]
    /\ cartItems = [c \in Consumers |-> <<>>]
    /\ deliveryMethod = [c \in Consumers |-> "pickup"]
    /\ deliveryAddress = [c \in Consumers |-> ""]
    /\ sessions = <<>>
    /\ admin_settings = InitAdminSettings
    /\ addProduct = [p \in Producers |-> NoAddProduct]
    /\ paid = {}
    /\ legacyCart = <<>>
    /\ response = [c \in Consumers |-> "none"]
    /\ product_images = [i \in {} |-> FALSE]
    /\ images = [i \in {} |-> FALSE]
    /\ loading = [c \in Consumers |-> TRUE]

----------------------------------------------------------------------------
(* Producer dashboard *)

\* fetchDashboardData: the producer's orders as the orders table holds them
DashboardOrders(p, tbl) ==
    [o \in {i \in 1..Len(tbl) : tbl[i].producer_id = p} |-> tbl[o].status]

\* the buttons rendered for an order shown with status `shown`
OrderButtons(shown) ==
    CASE shown = "pending" -> {"confirmed", "cancelled"}
      [] shown = "confirmed" -> {"completed"}
      [] OTHER -> {}

\* .update({ status }).eq('id', orderId)
SetStatus(tbl, o, status) == [tbl EXCEPT ![o].status = status]

ProducerFetchDashboard(p) ==
    /\ producerView[p] # DashboardOrders(p, orders)
    /\ producerView' = [producerView EXCEPT ![p] = DashboardOrders(p, orders)]
    /\ UNCHANGED <<products, orders, order_items, reviews, producer_profiles,
                   showReviewForm, rating, submitPc, submitRead>>
    /\ UNCHANGED cartVars
    /\ UNCHANGED platformVars
    /\ UNCHANGED otherVars

ProducerUpdateOrderStatus(p, o, status) ==
    /\ o \in DOMAIN producerView[p]
    /\ status \in OrderButtons(producerView[p][o])
    /\ \E ok \in BOOLEAN :
          /\ orders' = IF ok THEN SetStatus(orders, o, status) ELSE orders
          /\ producerView' =
                IF ok THEN [producerView EXCEPT
                               ![p] = DashboardOrders(p, orders')]
                ELSE producerView
    /\ UNCHANGED <<products, order_items, reviews, producer_profiles,
                   showReviewForm, rating, submitPc, submitRead>>
    /\ UNCHANGED cartVars
    /\ UNCHANGED platformVars
    /\ UNCHANGED otherVars

----------------------------------------------------------------------------
(* Admin dashboard *)

AdminUpdateOrderStatus(o, newStatus) ==
    /\ o \in 1..Len(orders)
    /\ newStatus \in AdminStatuses
    /\ newStatus # orders[o].status      \* the Select shows the current value
    /\ \E ok \in BOOLEAN :
          /\ orders' = IF ok THEN SetStatus(orders, o, newStatus) ELSE orders
    /\ UNCHANGED <<products, order_items, reviews, producer_profiles,
                   producerView, showReviewForm, rating, submitPc, submitRead>>
    /\ UNCHANGED cartVars
    /\ UNCHANGED platformVars
    /\ UNCHANGED otherVars

----------------------------------------------------------------------------
(* Order history and the order review form *)

canReview(order) == order.status = "completed"

\* fetchOrders, then the Write Review button of one order line
OpenReviewForm(c, o, productId) ==
    /\ submitPc[c] = "idle"
    /\ o \in 1..Len(orders)
    /\ orders[o].consumer_id = c
    /\ canReview(orders[o])
    /\ \E i \in 1..Len(order_items) :
          /\ order_items[i].order_id = o
          /\ order_items[i].product_id = productId
    /\ showReviewForm' = [showReviewForm EXCEPT ![c] =
          [orderId |-> o, productId |-> productId,
           producerId |-> orders[o].producer_id]]
    /\ showReviewForm'[c] # showReviewForm[c]
    /\ rating' = [rating EXCEPT ![c] = 0]
    /\ UNCHANGED <<products, orders, order_items, reviews, producer_profiles,
                   producerView, submitPc, submitRead>>
    /\ UNCHANGED cartVars
    /\ UNCHANGED platformVars
    /\ UNCHANGED otherVars

SetRating(c, star) ==
    /\ submitPc[c] = "idle"
    /\ star \in Stars
    /\ rating[c] # star
    /\ rating' = [rating EXCEPT ![c] = star]
    /\ UNCHANGED <<products, orders, order_items, reviews, producer_profiles,
                   producerView, showReviewForm, submitPc, submitRead>>
    /\ UNCHANGED cartVars
    /\ UNCHANGED platformVars
    /\ UNCHANGED otherVars

ReviewRow(c, producerId, productId, orderId, stars) ==
    [consumer_id |-> c, producer_id |-> producerId, product_id |-> productId,
     order_id |-> orderId, rating |-> stars]

\* submitReview with the rating check left out
SubmitReviewInsertUnguarded(c) ==
    /\ showReviewForm[c] # NoForm
    /\ submitPc[c] = "idle"
    /\ \E ok \in BOOLEAN :
          IF ok
          THEN /\ Len(reviews) < MaxReviews
               /\ reviews' = Append(reviews,
                     ReviewRow(c, showReviewForm[c].producerId,
                               showReviewForm[c].productId,
                               showReviewForm[c].orderId, rating[c]))
               /\ submitPc' = [submitPc EXCEPT ![c] = "inserted"]
          ELSE UNCHANGED <<reviews, submitPc>>
    /\ UNCHANGED <<products, orders, order_items, producer_profiles,
                   producerView, showReviewForm, rating, submitRead>>
    /\ UNCHANGED cartVars
    /\ UNCHANGED platformVars
    /\ UNCHANGED otherVars

\* submitReview up to the insert into reviews
SubmitReviewInsert(c) ==
    /\ showReviewForm[c] # NoForm
    /\ submitPc[c] = "idle"
    /\ rating[c] # 0
    /\ \E ok \in BOOLEAN :
          IF ok
          THEN /\ Len(reviews) < MaxReviews
               /\ reviews' = Append(reviews,
                     ReviewRow(c, showReviewForm[c].producerId,
                               showReviewForm[c].productId,
                               showReviewForm[c].orderId, rating[c]))
               /\ submitPc' = [submitPc EXCEPT ![c] = "inserted"]
          ELSE UNCHANGED <<reviews, submitPc>>
    /\ UNCHANGED <<products, orders, order_items, producer_profiles,
                   producerView, showReviewForm, rating, submitRead>>
    /\ UNCHANGED cartVars
    /\ UNCHANGED platformVars
    /\ UNCHANGED otherVars

\* the ratings of a producer's reviews, as select('rating') returns them
RatingsOf(producerId) ==
    LET rows == SelectSeq(reviews, LAMBDA r : r.producer_id = producerId)
    IN  [k \in 1..Len(rows) |-> rows[k].rating]

\* the toast and onReviewSubmitted that end a successful submitReview
SubmitDone(c) ==
    /\ showReviewForm' = [showReviewForm EXCEPT ![c] = NoForm]
    /\ rating' = [rating EXCEPT ![c] = 0]
    /\ submitPc' = [submitPc EXCEPT ![c] = "idle"]
    /\ submitRead' = [submitRead EXCEPT ![c] = <<>>]

\* submitReview: the select of the producer's ratings
SubmitReviewRead(c) ==
    /\ submitPc[c] = "inserted"
    /\ \E ok \in BOOLEAN :
          IF ok
          THEN /\ submitRead' = [submitRead EXCEPT
                     ![c] = RatingsOf(showReviewForm[c].producerId)]
               /\ submitPc' = [submitPc EXCEPT ![c] = "read"]
               /\ UNCHANGED <<showReviewForm, rating>>
          ELSE SubmitDone(c)       \* `reviews` is null: the update is skipped
    /\ UNCHANGED <<products, orders, order_items, reviews, producer_profiles,
                   producerView>>
    /\ UNCHANGED cartVars
    /\ UNCHANGED platformVars
    /\ UNCHANGED otherVars

\* a summary kept by counting up instead of recomputing
SubmitReviewWriteCountingUp(c) ==
    /\ submitPc[c] = "read"
    /\ \E ok \in BOOLEAN :
          producer_profiles' =
             IF ok
             THEN [producer_profiles EXCEPT ![showReviewForm[c].producerId] =
                     [rating |-> <<SumSeq(submitRead[c]), Len(submitRead[c])>>,
                      review_count |->
                        producer_profiles[showReviewForm[c].producerId]
                           .review_count + 1]]
             ELSE producer_profiles
    /\ SubmitDone(c)
    /\ UNCHANGED <<products, orders, order_items, reviews, producerView>>
    /\ UNCHANGED cartVars
    /\ UNCHANGED platformVars
    /\ UNCHANGED otherVars

\* a recomputation that reads the reviews in the same step as it writes
SubmitReviewWriteAtomic(c) ==
    /\ submitPc[c] = "read"
    /\ \E ok \in BOOLEAN :
          producer_profiles' =
             IF ok
             THEN [producer_profiles EXCEPT ![showReviewForm[c].producerId] =
                     [rating |->
                        <<SumSeq(RatingsOf(showReviewForm[c].producerId)),
                          Len(RatingsOf(showReviewForm[c].producerId))>>,
                      review_count |->
                        Len(RatingsOf(showReviewForm[c].producerId))]]
             ELSE producer_profiles
    /\ SubmitDone(c)
    /\ UNCHANGED <<products, orders, order_items, reviews, producerView>>
    /\ UNCHANGED cartVars
    /\ UNCHANGED platformVars
    /\ UNCHANGED otherVars

\* submitReview: the update of producer_profiles, then toast and callback
SubmitReviewWrite(c) ==
    /\ submitPc[c] = "read"
    /\ \E ok \in BOOLEAN :
          producer_profiles' =
             IF ok
             THEN [producer_profiles EXCEPT ![showReviewForm[c].producerId] =
                     [rating |-> <<SumSeq(submitRead[c]), Len(submitRead[c])>>,
                      review_count |-> Len(submitRead[c])]]
             ELSE producer_profiles
    /\ SubmitDone(c)
    /\ UNCHANGED <<products, orders, order_items, reviews, producerView>>
    /\ UNCHANGED cartVars
    /\ UNCHANGED platformVars
    /\ UNCHANGED otherVars

----------------------------------------------------------------------------
(* Review forms of the product page and of the producer page *)

DummyOrderWithFee(c, producerId) ==
    [consumer_id |-> c, producer_id |-> producerId, total_amount |-> 0,
     status |-> "completed", delivery_method |-> "delivery",
     delivery_fee |-> <<1500>>]

\* the "dummy order" ProductReviewForm and ProducerReviewForm insert
DummyOrder(c, producerId) ==
    [consumer_id |-> c, producer_id |-> producerId, total_amount |-> 0,
     status |-> "completed", delivery_method |-> "pickup",
     delivery_fee |-> <<>>]

\* the "dummy product" ProducerReviewForm inserts for a producer without one
DummyProduct(producerId) ==
    [producer_id |-> producerId, price |-> 0, stock_quantity |-> 0,
     made_to_order |-> FALSE, is_available |-> FALSE]

\* the id the products table gives that row
DummyProductId(producerId) ==
    CASE producerId = "p1" -> "d1"
      [] producerId = "p2" -> "d2"
      [] producerId = "p3" -> "d3"

InsertProduct(tbl, id, row) ==
    [k \in DOMAIN tbl \cup {id} |-> IF k = id THEN row ELSE tbl[k]]

ProductsOf(producerId) ==
    {id \in DOMAIN products : products[id].producer_id = producerId}

\* ProductReviewForm.handleSubmit on the page of product productId; `fail`
\* is the insert that returns an error, if any
ProductReviewFormSubmit(c, productId, fail) ==
    /\ submitPc[c] = "idle"
    /\ productId \in DOMAIN products
    /\ rating[c] # 0
    /\ fail \in {"none", "order", "review"}
    /\ LET producerId == products[productId].producer_id
           orderId == Len(orders) + 1
       IN  IF fail = "order"
           THEN UNCHANGED <<orders, reviews, rating>>
           ELSE /\ Len(orders) < MaxOrders
                /\ orders' = Append(orders, DummyOrder(c, producerId))
                /\ IF fail = "review"
                   THEN UNCHANGED <<reviews, rating>>
                   ELSE /\ Len(reviews) < MaxReviews
                        /\ reviews' = Append(reviews,
                              ReviewRow(c, producerId, productId, orderId,
                                        rating[c]))
                        /\ rating' = [rating EXCEPT ![c] = 0]
    /\ UNCHANGED <<products, order_items, producer_profiles, producerView,
                   showReviewForm, submitPc, submitRead>>
    /\ UNCHANGED cartVars
    /\ UNCHANGED platformVars
    /\ UNCHANGED otherVars

\* ProducerReviewForm.handleSubmit, the version with placeholder rows
ProducerReviewFormSubmitV1(c, producerId, fail) ==
    /\ submitPc[c] = "idle"
    /\ rating[c] # 0
    /\ fail \in {"none", "order", "product", "review"}
    /\ LET orderId == Len(orders) + 1
       IN  IF fail = "order"
           THEN UNCHANGED <<orders, products, reviews, rating>>
           ELSE /\ Len(orders) < MaxOrders
                /\ orders' = Append(orders, DummyOrder(c, producerId))
                /\ \E productId \in ProductsOf(producerId)
                                      \cup {DummyProductId(producerId)} :
                      /\ IF ProductsOf(producerId) # {}
                         THEN /\ productId \in ProductsOf(producerId)
                              /\ fail # "product"
                              /\ UNCHANGED products
                         ELSE IF fail = "product"
                              THEN UNCHANGED products
                              ELSE products' = InsertProduct(products,
                                      productId, DummyProduct(producerId))
                      /\ IF fail = "none"
                         THEN /\ Len(reviews) < MaxReviews
                              /\ reviews' = Append(reviews,
                                    ReviewRow(c, producerId, productId,
                                              orderId, rating[c]))
                              /\ rating' = [rating EXCEPT ![c] = 0]
                         ELSE UNCHANGED <<reviews, rating>>
    /\ UNCHANGED <<order_items, producer_profiles, producerView,
                   showReviewForm, submitPc, submitRead>>
    /\ UNCHANGED cartVars
    /\ UNCHANGED platformVars
    /\ UNCHANGED otherVars

\* ProducerReviewForm.handleSubmit, the version with null references
ProducerReviewFormSubmitV2(c, producerId, ok) ==
    /\ submitPc[c] = "idle"
    /\ rating[c] # 0
    /\ IF ok
       THEN /\ Len(reviews) < MaxReviews
            /\ reviews' = Append(reviews,
                  ReviewRow(c, producerId, NULL, NoOrder, rating[c]))
            /\ rating' = [rating EXCEPT ![c] = 0]
       ELSE UNCHANGED <<reviews, rating>>
    /\ UNCHANGED <<products, orders, order_items, producer_profiles,
                   producerView, showReviewForm, submitPc, submitRead>>
    /\ UNCHANGED cartVars
    /\ UNCHANGED platformVars
    /\ UNCHANGED otherVars

----------------------------------------------------------------------------
(* Commission: the setting, the producer's price breakdown *)

\* what the admin types into the Transaction Fee (%) number input; min and
\* max of the input do not keep a typed value out of e.target.value
RateTexts == {"0", "12", "50", "100", "200", "-5"}

\* the prices (grosz) a producer types into the price field of AddProduct
WatchedPrices == {0, 15, 10000}

\* parseFloat on the texts the settings hold
ParseFloat(text) ==
    CASE text = "0" -> 0
      [] text = "5" -> 5
      [] text = "12" -> 12
      [] text = "50" -> 50
      [] text = "100" -> 100
      [] text = "200" -> 200
      [] text = "-5" -> 0 - 5

\* The amounts whose double lies below the decimal half it stands for:
\* 0.15 * 50 / 100 and 0.15 - 0.075 are 0.07499999999999999722...
TiesBelowHalf == {750}

\* Number.prototype.toFixed(2) of an amount in PLN, as grosz; the amount is
\* given exactly, in 1/100 grosz.  toFixed rounds the double's exact value
\* half away from zero; only at a tie the double's error decides.
ToFixed2(x100) ==
    LET mag == IF x100 < 0 THEN 0 - x100 ELSE x100
        r == IF mag \in TiesBelowHalf THEN mag \div 100
             ELSE (mag + 50) \div 100
    IN  IF x100 < 0 THEN 0 - r ELSE r

\* customerPrice * (commissionRate / 100), in 1/100 grosz
commissionAmount(customerPrice, commissionRate) ==
    customerPrice * commissionRate

\* customerPrice - commissionAmount; AddProduct.calculateProducerEarnings
\* computes price * (1 - commissionRate / 100)
producerEarnings(customerPrice, commissionRate) ==
    customerPrice * 100 - commissionAmount(customerPrice, commissionRate)

\* AdminDashboard.updateAdminSetting(key, value), called when the Transaction
\* Fee input loses focus
UpdateAdminSetting(key, value, ok) ==
    /\ key \in DOMAIN admin_settings
    /\ value # admin_settings[key]
    /\ IF ok
       THEN admin_settings' = [admin_settings EXCEPT ![key] = value]
       ELSE UNCHANGED admin_settings
    /\ UNCHANGED <<products, orders, order_items, reviews, producer_profiles,
                   addProduct, paid>>
    /\ UNCHANGED reviewVars
    /\ UNCHANGED cartVars
    /\ UNCHANGED otherVars

\* AddProduct mounts: commissionRate starts at 12, fetchCommissionRate
\* replaces it by the transaction_fee_percent setting unless the select fails
OpenAddProduct(p, ok) ==
    /\ ~addProduct[p].open
    /\ addProduct' = [addProduct EXCEPT ![p] =
          [open |-> TRUE,
           commissionRate |->
              IF ok THEN ParseFloat(admin_settings["transaction_fee_percent"])
              ELSE NoAddProduct.commissionRate,
           price |-> 0]]
    /\ UNCHANGED <<products, orders, order_items, reviews, producer_profiles,
                   admin_settings, paid>>
    /\ UNCHANGED reviewVars
    /\ UNCHANGED cartVars
    /\ UNCHANGED otherVars

\* the producer leaves AddProduct
CloseAddProduct(p) ==
    /\ addProduct[p].open
    /\ addProduct' = [addProduct EXCEPT ![p] = NoAddProduct]
    /\ UNCHANGED <<products, orders, order_items, reviews, producer_profiles,
                   admin_settings, paid>>
    /\ UNCHANGED reviewVars
    /\ UNCHANGED cartVars
    /\ UNCHANGED otherVars

\* the producer types a price; the breakdown below the field follows it
SetWatchedPrice(p, price) ==
    /\ addProduct[p].open
    /\ price # addProduct[p].price
    /\ addProduct' = [addProduct EXCEPT ![p].price = price]
    /\ UNCHANGED <<products, orders, order_items, reviews, producer_profiles,
                   admin_settings, paid>>
    /\ UNCHANGED reviewVars
    /\ UNCHANGED cartVars
    /\ UNCHANGED otherVars

\* the two amounts of the breakdown as rendered, x.toFixed(2), in grosz
ShownCommission(form) ==
    ToFixed2(commissionAmount(form.price, form.commissionRate))

ShownEarnings(form) ==
    ToFixed2(producerEarnings(form.price, form.commissionRate))

----------------------------------------------------------------------------
(* The producer's catalogue *)

\* ProducerDashboard.toggleProductAvailability(productId, isAvailable) on a
\* product of the dashboard's list; the list is fetched again after every
\* successful toggle, and so are the orders
ToggleProductAvailability(p, id, ok) ==
    /\ id \in DOMAIN products
    /\ products[id].producer_id = p
    /\ IF ok
       THEN /\ products' = [products EXCEPT
                              ![id].is_available = ~products[id].is_available]
            /\ producerView' =
                  [producerView EXCEPT ![p] = DashboardOrders(p, orders)]
       ELSE UNCHANGED <<products, producerView>>
    /\ UNCHANGED <<orders, order_items, reviews, producer_profiles,
                   showReviewForm, rating, submitPc, submitRead>>
    /\ UNCHANGED cartVars
    /\ UNCHANGED platformVars
    /\ UNCHANGED otherVars

\* EditProduct.handleSubmit with a new price typed: fetchProduct loads the
\* form with is_available = data.is_available || true, the update writes
\* every field of the form
EditProduct(p, id, price, ok) ==
    /\ id \in DOMAIN products
    /\ products[id].producer_id = p
    /\ price # products[id].price
    /\ IF ok
       THEN products' = [products EXCEPT ![id].price = price,
                                         ![id].is_available = TRUE]
       ELSE UNCHANGED products
    /\ UNCHANGED <<orders, order_items, reviews, producer_profiles>>
    /\ UNCHANGED reviewVars
    /\ UNCHANGED cartVars
    /\ UNCHANGED platformVars
    /\ UNCHANGED otherVars

----------------------------------------------------------------------------
(* Pages of a consumer's tab.  Opening a page mounts it with its initial   *)
(* state and unmounts the page shown before.                               *)

Show(c, pg, view, prod, items) ==
    /\ page' = [page EXCEPT ![c] = pg]
    /\ marketView' = [marketView EXCEPT ![c] = view]
    /\ pdProduct' = [pdProduct EXCEPT ![c] = prod]
    /\ pdQuantity' = [pdQuantity EXCEPT ![c] = 1]
    /\ cartItems' = [cartItems EXCEPT ![c] = items]
    /\ deliveryMethod' = [deliveryMethod EXCEPT ![c] = "pickup"]
    /\ deliveryAddress' = [deliveryAddress EXCEPT ![c] = ""]

\* Marketplace.fetchData: the products with is_available = true
AvailableProducts ==
    [id \in {k \in DOMAIN products : products[k].is_available} |->
        ProductView(id, products[id])]

OpenMarketplace(c) ==
    /\ page[c] # "marketplace"
    /\ Show(c, "marketplace", AvailableProducts, NoProduct, <<>>)
    /\ UNCHANGED <<products, orders, order_items, reviews, producer_profiles,
                   cart, sessions>>
    /\ UNCHANGED reviewVars
    /\ UNCHANGED platformVars
    /\ UNCHANGED otherVars

\* ProductDetails.fetchProductDetails for /product/:id
OpenProduct(c, id) ==
    /\ id \in DOMAIN products
    /\ pdProduct[c].id # id
    /\ Show(c, "product", <<>>, ProductView(id, products[id]), <<>>)
    /\ UNCHANGED <<products, orders, order_items, reviews, producer_profiles,
                   cart, sessions>>
    /\ UNCHANGED reviewVars
    /\ UNCHANGED platformVars
    /\ UNCHANGED otherVars

\* Cart.fetchCartItems: the stored lines whose product exists, each with
\* the product row as the products table holds it now
EnrichedCart(stored) ==
    LET kept == SelectSeq(stored, LAMBDA l : l.product_id \in DOMAIN products)
    IN  [k \in 1..Len(kept) |->
            [product_id |-> kept[k].product_id, quantity |-> kept[k].quantity,
             price_per_unit |-> kept[k].price_per_unit,
             product |-> ProductView(kept[k].product_id,
                                     products[kept[k].product_id])]]

OpenCart(c) ==
    /\ page[c] # "cart"
    /\ Show(c, "cart", <<>>, NoProduct, EnrichedCart(cart[c]))
    /\ UNCHANGED <<products, orders, order_items, reviews, producer_profiles,
                   cart, sessions>>
    /\ UNCHANGED reviewVars
    /\ UNCHANGED platformVars
    /\ UNCHANGED otherVars

----------------------------------------------------------------------------
(* Adding to the cart *)

\* findIndex(item => item.product_id === id): 0 stands for -1
IndexOfProduct(items, id) ==
    IF \E i \in 1..Len(items) : items[i].product_id = id
    THEN CHOOSE i \in 1..Len(items) :
            /\ items[i].product_id = id
            /\ \A j \in 1..(i - 1) : items[j].product_id # id
    ELSE 0

\* the stored cart after adding qty of product id at the given price
AddLine(items, id, qty, price) ==
    LET i == IndexOfProduct(items, id)
    IN  IF i # 0
        THEN [items EXCEPT ![i].quantity = @ + qty]
        ELSE Append(items, [product_id |-> id, quantity |-> qty,
                            price_per_unit |-> price])

\* the units in a cart
TotalQuantity(items) == SumSeq([k \in 1..Len(items) |-> items[k].quantity])

\* disabled= of the Marketplace card's Add to Cart button
MarketAddDisabled(product) ==
    ~product.made_to_order /\ product.stock_quantity = 0

\* Marketplace.addToCart(product)
MarketplaceAddToCart(c, id) ==
    /\ page[c] = "marketplace"
    /\ id \in DOMAIN marketView[c]
    /\ ~MarketAddDisabled(marketView[c][id])
    /\ TotalQuantity(cart[c]) + 1 <= MaxQty
    /\ cart' = [cart EXCEPT
                  ![c] = AddLine(@, id, 1, marketView[c][id].price)]
    /\ UNCHANGED <<products, orders, order_items, reviews, producer_profiles,
                   page, marketView, pdProduct, pdQuantity, cartItems,
                   deliveryMethod, deliveryAddress, sessions>>
    /\ UNCHANGED reviewVars
    /\ UNCHANGED platformVars
    /\ UNCHANGED otherVars

\* the + and - buttons next to the product page's Add to Cart button
PDIncrement(c) ==
    /\ page[c] = "product"
    /\ pdQuantity' = [pdQuantity EXCEPT
          ![c] = Min(pdProduct[c].stock_quantity, @ + 1)]
    /\ pdQuantity'[c] # pdQuantity[c]
    /\ UNCHANGED <<products, orders, order_items, reviews, producer_profiles,
                   cart, page, marketView, pdProduct, cartItems,
                   deliveryMethod, deliveryAddress, sessions>>
    /\ UNCHANGED reviewVars
    /\ UNCHANGED platformVars
    /\ UNCHANGED otherVars

PDDecrement(c) ==
    /\ page[c] = "product"
    /\ pdQuantity' = [pdQuantity EXCEPT ![c] = Max(1, @ - 1)]
    /\ pdQuantity'[c] # pdQuantity[c]
    /\ UNCHANGED <<products, orders, order_items, reviews, producer_profiles,
                   cart, page, marketView, pdProduct, cartItems,
                   deliveryMethod, deliveryAddress, sessions>>
    /\ UNCHANGED reviewVars
    /\ UNCHANGED platformVars
    /\ UNCHANGED otherVars

\* disabled= of the product page's Add to Cart button
PDAddDisabled(product) ==
    ~product.is_available \/ product.stock_quantity = 0

\* ProductDetails.addToCart
PDAddToCart(c) ==
    /\ page[c] = "product"
    /\ ~PDAddDisabled(pdProduct[c])
    /\ TotalQuantity(cart[c]) + pdQuantity[c] <= MaxQty
    /\ cart' = [cart EXCEPT
                  ![c] = AddLine(@, pdProduct[c].id, pdQuantity[c],
                                 pdProduct[c].price)]
    /\ UNCHANGED <<products, orders, order_items, reviews, producer_profiles,
                   page, marketView, pdProduct, pdQuantity, cartItems,
                   deliveryMethod, deliveryAddress, sessions>>
    /\ UNCHANGED reviewVars
    /\ UNCHANGED platformVars
    /\ UNCHANGED otherVars

\* ProductDetails.addToCart of the version that keeps the cart under the key
\* 'cart': find(item => item.productId === id), then += quantity or push
LegacyAddLine(items, id, qty) ==
    IF \E i \in 1..Len(items) : items[i].productId = id
    THEN LET i == CHOOSE k \in 1..Len(items) :
                     /\ items[k].productId = id
                     /\ \A j \in 1..(k - 1) : items[j].productId # id
         IN  [items EXCEPT ![i].quantity = @ + qty]
    ELSE Append(items, [productId |-> id, quantity |-> qty])

PDAddToCartLegacy(c) ==
    /\ page[c] = "product"
    /\ ~PDAddDisabled(pdProduct[c])
    /\ TotalQuantity(legacyCart) + pdQuantity[c] <= MaxQty
    /\ legacyCart' = LegacyAddLine(legacyCart, pdProduct[c].id, pdQuantity[c])
    /\ UNCHANGED <<products, orders, order_items, reviews, producer_profiles>>
    /\ UNCHANGED cartVars
    /\ UNCHANGED reviewVars
    /\ UNCHANGED platformVars
    /\ UNCHANGED <<response, product_images, images, loading>>

----------------------------------------------------------------------------
(* The cart page *)

\* JSON written to localStorage under cart_<user id>: the readers use only
\* product_id, quantity and price_per_unit of a stored line
Stored(items) ==
    [k \in 1..Len(items) |->
        [product_id |-> items[k].product_id, quantity |-> items[k].quantity,
         price_per_unit |-> items[k].price_per_unit]]

\* the filter with its test inverted
RemovedFromInverted(items, productId) ==
    SelectSeq(items, LAMBDA item : item.product_id = productId)

RemovedFrom(items, productId) ==
    SelectSeq(items, LAMBDA item : item.product_id # productId)

\* Cart.removeFromCart(productId)
RemoveFromCart(c, productId) ==
    /\ page[c] = "cart"
    /\ IndexOfProduct(cartItems[c], productId) # 0
    /\ cartItems' = [cartItems EXCEPT ![c] = RemovedFrom(@, productId)]
    /\ cart' = [cart EXCEPT ![c] = Stored(cartItems'[c])]
    /\ UNCHANGED <<products, orders, order_items, reviews, producer_profiles,
                   page, marketView, pdProduct, pdQuantity, deliveryMethod,
                   deliveryAddress, sessions>>
    /\ UNCHANGED reviewVars
    /\ UNCHANGED platformVars
    /\ UNCHANGED otherVars

\* Cart.updateCartQuantity(productId, newQuantity)
UpdateCartQuantity(c, productId, newQuantity) ==
    /\ cartItems' = [cartItems EXCEPT ![c] =
          IF newQuantity <= 0
          THEN RemovedFrom(@, productId)
          ELSE [k \in 1..Len(@) |->
                  IF @[k].product_id = productId
                  THEN [@[k] EXCEPT !.quantity = newQuantity]
                  ELSE @[k]]]
    /\ cart' = [cart EXCEPT ![c] = Stored(cartItems'[c])]
    /\ UNCHANGED <<products, orders, order_items, reviews, producer_profiles,
                   page, marketView, pdProduct, pdQuantity, deliveryMethod,
                   deliveryAddress, sessions>>
    /\ UNCHANGED reviewVars
    /\ UNCHANGED platformVars
    /\ UNCHANGED otherVars

\* the - button of a cart line
CartMinus(c, k) ==
    /\ page[c] = "cart"
    /\ k \in 1..Len(cartItems[c])
    /\ UpdateCartQuantity(c, cartItems[c][k].product_id,
                          cartItems[c][k].quantity - 1)

\* disabled= of the + button of a cart line
CartPlusDisabled(item) ==
    ~item.product.made_to_order /\ item.quantity >= item.product.stock_quantity

\* the + button of a cart line
CartPlus(c, k) ==
    /\ page[c] = "cart"
    /\ k \in 1..Len(cartItems[c])
    /\ ~CartPlusDisabled(cartItems[c][k])
    /\ TotalQuantity(cartItems[c]) + 1 <= MaxQty
    /\ UpdateCartQuantity(c, cartItems[c][k].product_id,
                          cartItems[c][k].quantity + 1)

\* Cart.clearCart
ClearCart(c) ==
    /\ page[c] = "cart"
    /\ cartItems[c] # <<>>
    /\ cartItems' = [cartItems EXCEPT ![c] = <<>>]
    /\ cart' = [cart EXCEPT ![c] = <<>>]
    /\ UNCHANGED <<products, orders, order_items, reviews, producer_profiles,
                   page, marketView, pdProduct, pdQuantity, deliveryMethod,
                   deliveryAddress, sessions>>
    /\ UNCHANGED reviewVars
    /\ UNCHANGED platformVars
    /\ UNCHANGED otherVars

\* the delivery method radio group
SetDeliveryMethod(c, method) ==
    /\ page[c] = "cart"
    /\ cartItems[c] # <<>>
    /\ method # deliveryMethod[c]
    /\ deliveryMethod' = [deliveryMethod EXCEPT ![c] = method]
    /\ UNCHANGED <<products, orders, order_items, reviews, producer_profiles,
                   cart, page, marketView, pdProduct, pdQuantity, cartItems,
                   deliveryAddress, sessions>>
    /\ UNCHANGED reviewVars
    /\ UNCHANGED platformVars
    /\ UNCHANGED otherVars

\* the address field, shown while the method is delivery
SetDeliveryAddress(c, address) ==
    /\ page[c] = "cart"
    /\ cartItems[c] # <<>>
    /\ deliveryMethod[c] = "delivery"
    /\ address # deliveryAddress[c]
    /\ deliveryAddress' = [deliveryAddress EXCEPT ![c] = address]
    /\ UNCHANGED <<products, orders, order_items, reviews, producer_profiles,
                   cart, page, marketView, pdProduct, pdQuantity, cartItems,
                   deliveryMethod, sessions>>
    /\ UNCHANGED reviewVars
    /\ UNCHANGED platformVars
    /\ UNCHANGED otherVars

\* String.prototype.trim on the addresses typed
Trim(address) == IF address = " " THEN "" ELSE address

getSubtotal(items) ==
    SumSeq([k \in 1..Len(items) |->
              items[k].price_per_unit * items[k].quantity])

DeliveryFee == 1500     \* 15 PLN

\* a fee charged whatever the delivery method
getDeliveryFeeAlways(method) == DeliveryFee

getDeliveryFee(method) == IF method = "delivery" THEN DeliveryFee ELSE 0

getTotalPrice(items, method) == getSubtotal(items) + getDeliveryFee(method)

\* The checkout session the create-payment function asks Stripe for.
\* Amounts are in grosz throughout, so Math.round(price * 100) of a price
\* in PLN is the amount itself.
CreatePayment(user, paymentItems, method, address, fee) ==
    [user_id |-> user,
     line_items |->
        [k \in 1..Len(paymentItems) |->
            [name |-> paymentItems[k].product_id,
             unit_amount |-> paymentItems[k].price_per_unit,
             quantity |-> paymentItems[k].quantity]]
        \o (IF fee > 0
            THEN <<[name |-> "Warsaw Delivery", unit_amount |-> fee,
                    quantity |-> 1]>>
            ELSE <<>>),
     metadata |->
        LET commissionRate == ParseFloat(admin_settings["commission_rate"])
        IN  [commission_rate |-> commissionRate,
             commission_amount |->
                ToFixed2(commissionAmount(getSubtotal(paymentItems),
                                          commissionRate)),
             delivery_method |-> method,
             delivery_address |-> address,
             delivery_fee |-> fee,
             subtotal |-> getSubtotal(paymentItems)]]

\* Cart.proceedToCheckout; ok: the function returned a session URL
ProceedToCheckout(c, ok) ==
    /\ page[c] = "cart"
    /\ cartItems[c] # <<>>
    /\ Len(sessions) < MaxSessions
    /\ IF deliveryMethod[c] = "delivery" /\ Trim(deliveryAddress[c]) = ""
       THEN UNCHANGED <<sessions, response>>
       ELSE IF ok
            THEN /\ sessions' = Append(sessions,
                    CreatePayment(c, Stored(cartItems[c]), deliveryMethod[c],
                        IF deliveryMethod[c] = "delivery"
                        THEN deliveryAddress[c] ELSE "",
                        getDeliveryFee(deliveryMethod[c])))
                 /\ response' = [response EXCEPT ![c] = "url"]
            ELSE /\ UNCHANGED sessions
                 /\ response' = [response EXCEPT ![c] = "error"]
    /\ UNCHANGED <<products, orders, order_items, reviews, producer_profiles,
                   cart, page, marketView, pdProduct, pdQuantity, cartItems,
                   deliveryMethod, deliveryAddress>>
    /\ UNCHANGED reviewVars
    /\ UNCHANGED platformVars
    /\ UNCHANGED <<legacyCart, product_images, images, loading>>

\* the JSON bodies sent to create-payment by a client other than the Cart
\* page: <<>> is a body without cartItems, <<items>> one with cartItems
RequestBodies ==
    { <<>>, << <<>> >>,
      << <<[product_id |-> "a", quantity |-> 1, price_per_unit |-> 10000]>> >> }

\* serve of create-payment without the check for an empty cart
ServeCreatePaymentUnchecked(user, body, method, address, fee) ==
    [status |-> 200,
     created |-> <<CreatePayment(user, IF body = <<>> THEN <<>> ELSE body[1],
                                 method, address, fee)>>]

\* serve of create-payment: the response status and the session created
ServeCreatePayment(user, body, method, address, fee) ==
    IF body = <<>> \/ Len(body[1]) = 0
    THEN [status |-> 500, created |-> <<>>]
    ELSE [status |-> 200,
          created |-> <<CreatePayment(user, body[1], method, address, fee)>>]

\* a request to create-payment with the consumer's token; ok: the payment
\* processor accepted the session
InvokeCreatePayment(c, body, method, ok) ==
    /\ body \in RequestBodies
    /\ method \in {"pickup", "delivery"}
    /\ LET res == ServeCreatePayment(c, body, method, "",
                                     getDeliveryFee(method))
       IN  IF res.status = 200 /\ ok
           THEN /\ Len(sessions) < MaxSessions
                /\ sessions' = sessions \o res.created
                /\ response' = [response EXCEPT ![c] = "url"]
           ELSE /\ UNCHANGED sessions
                /\ response' = [response EXCEPT ![c] = "error"]
    /\ UNCHANGED <<products, orders, order_items, reviews, producer_profiles,
                   cart, page, marketView, pdProduct, pdQuantity, cartItems,
                   deliveryMethod, deliveryAddress, legacyCart,
                   product_images, images, loading>>
    /\ UNCHANGED reviewVars
    /\ UNCHANGED platformVars

----------------------------------------------------------------------------
(* Return from the payment processor *)

\* PaymentSuccess's effect on mount: with a session_id parameter and a
\* signed-in user the stored cart is removed
PaymentSuccessMount(c, hasSessionId) ==
    /\ Show(c, "payment-success", <<>>, NoProduct, <<>>)
    /\ cart' = [cart EXCEPT ![c] = IF hasSessionId THEN <<>> ELSE @]
    /\ loading' = [loading EXCEPT ![c] = ~hasSessionId]

\* the consumer pays checkout session s; the processor redirects to
\* success_url, /payment-success?session_id=<the session's id>
PayAndReturn(c, s) ==
    /\ s \in 1..Len(sessions)
    /\ sessions[s].user_id = c
    /\ s \notin paid
    /\ paid' = paid \cup {s}
    /\ PaymentSuccessMount(c, TRUE)
    /\ UNCHANGED <<products, orders, order_items, reviews, producer_profiles,
                   sessions, admin_settings, addProduct>>
    /\ UNCHANGED reviewVars
    /\ UNCHANGED <<legacyCart, response, product_images, images>>

\* the consumer leaves the processor's page unpaid; the processor redirects
\* to cancel_url, /cart
CancelCheckout(c, s) ==
    /\ s \in 1..Len(sessions)
    /\ sessions[s].user_id = c
    /\ s \notin paid
    /\ page[c] # "cart"
    /\ Show(c, "cart", <<>>, NoProduct, EnrichedCart(cart[c]))
    /\ UNCHANGED <<products, orders, order_items, reviews, producer_profiles,
                   cart, sessions>>
    /\ UNCHANGED reviewVars
    /\ UNCHANGED platformVars
    /\ UNCHANGED otherVars

\* /payment-success opened by its URL: reloaded, reached through the
\* browser's history, or typed, with or without a session_id parameter
OpenPaymentSuccess(c, hasSessionId) ==
    /\ PaymentSuccessMount(c, hasSessionId)
    /\ \/ page[c] # "payment-success"
       \/ cart'[c] # cart[c]
    /\ UNCHANGED <<products, orders, order_items, reviews, producer_profiles,
                   sessions>>
    /\ UNCHANGED reviewVars
    /\ UNCHANGED platformVars
    /\ UNCHANGED <<legacyCart, response, product_images, images>>

\* /payment-success opened in a browser where nobody is signed in: `user`
\* is null, the effect does nothing
OpenPaymentSuccessSignedOut(c, hasSessionId) ==
    /\ page[c] # "payment-success" \/ ~loading[c]
    /\ Show(c, "payment-success", <<>>, NoProduct, <<>>)
    /\ loading' = [loading EXCEPT ![c] = TRUE]
    /\ UNCHANGED <<products, orders, order_items, reviews, producer_profiles,
                   cart, sessions>>
    /\ UNCHANGED <<legacyCart, response, product_images, images>>
    /\ UNCHANGED reviewVars
    /\ UNCHANGED platformVars

----------------------------------------------------------------------------
(* Product images: ProductImageManager of one product *)

\* 'Maksymalnie 5 zdjec na produkt'
MaxImagesPerProduct == 5

ImageIds == 1..MaxImagesPerProduct

\* the number of files picked in one upload
FilesPicked == {1, 2}

\* the ids the table gives n new rows
RECURSIVE NewImageIds(_, _)
NewImageIds(used, n) ==
    IF n = 0 THEN {}
    ELSE LET id == CHOOSE i \in ImageIds \ used :
                       \A j \in ImageIds \ used : i <= j
         IN  {id} \cup NewImageIds(used \cup {id}, n - 1)

\* fetchImages when the manager is shown again
FetchImages ==
    /\ images # product_images
    /\ images' = product_images
    /\ UNCHANGED product_images
    /\ UNCHANGED <<products, orders, order_items, reviews, producer_profiles,
                   legacyCart, response, loading>>
    /\ UNCHANGED reviewVars
    /\ UNCHANGED cartVars
    /\ UNCHANGED platformVars

\* handleImageUpload with n valid files; ok: the uploads and the insert
\* succeeded. Only the first file of an upload into an empty list is primary
HandleImageUpload(n, ok) ==
    /\ Cardinality(DOMAIN images) < MaxImagesPerProduct   \* button enabled
    /\ IF Cardinality(DOMAIN images) + n > MaxImagesPerProduct \/ ~ok
       THEN UNCHANGED <<product_images, images>>
       ELSE /\ Cardinality(DOMAIN product_images) + n <= MaxImagesPerProduct
            /\ LET new == NewImageIds(DOMAIN product_images, n)
                    first == CHOOSE i \in new : \A j \in new : i <= j
               IN  product_images' =
                      [i \in DOMAIN product_images \cup new |->
                          IF i \in new
                          THEN DOMAIN images = {} /\ i = first
                          ELSE product_images[i]]
            /\ images' = product_images'
    /\ UNCHANGED <<products, orders, order_items, reviews, producer_profiles,
                   legacyCart, response, loading>>
    /\ UNCHANGED reviewVars
    /\ UNCHANGED cartVars
    /\ UNCHANGED platformVars

\* handleDeleteImage(imageId)
HandleDeleteImage(imageId, ok) ==
    /\ imageId \in DOMAIN images
    /\ IF ok
       THEN /\ product_images' =
                  [i \in DOMAIN product_images \ {imageId} |->
                      product_images[i]]
            /\ images' = product_images'
       ELSE UNCHANGED <<product_images, images>>
    /\ UNCHANGED <<products, orders, order_items, reviews, producer_profiles,
                   legacyCart, response, loading>>
    /\ UNCHANGED reviewVars
    /\ UNCHANGED cartVars
    /\ UNCHANGED platformVars

\* handleSetPrimary(imageId): the result of the first update is not looked
\* at; an error of the second one skips fetchImages
HandleSetPrimary(imageId, ok1, ok2) ==
    /\ imageId \in DOMAIN images
    /\ ~images[imageId]                      \* the button of a non-primary image
    /\ LET unset == IF ok1 THEN [i \in DOMAIN product_images |-> FALSE]
                    ELSE product_images
       IN  IF ok2
           THEN /\ product_images' =
                      [i \in DOMAIN unset |-> IF i = imageId THEN TRUE
                                              ELSE unset[i]]
                /\ images' = product_images'
           ELSE /\ product_images' = unset
                /\ UNCHANGED images
    /\ UNCHANGED <<products, orders, order_items, reviews, producer_profiles,
                   legacyCart, response, loading>>
    /\ UNCHANGED reviewVars
    /\ UNCHANGED cartVars
    /\ UNCHANGED platformVars

----------------------------------------------------------------------------
\* the status machine and the order review gate
NextOrders ==
    \/ \E p \in DashboardProducers : ProducerFetchDashboard(p)
    \/ \E p \in DashboardProducers, o \in 1..MaxOrders, s \in AdminStatuses :
          ProducerUpdateOrderStatus(p, o, s)
    \/ \E o \in 1..MaxOrders, s \in AdminStatuses : AdminUpdateOrderStatus(o, s)
    \/ \E c \in Consumers, o \in 1..MaxOrders, id \in SeedProducts :
          OpenReviewForm(c, o, id)
    \/ \E c \in Consumers, star \in StarsClicked : SetRating(c, star)
    \/ \E c \in Consumers : SubmitReviewInsert(c)
    \/ \E c \in Consumers : SubmitReviewRead(c)
    \/ \E c \in Consumers : SubmitReviewWrite(c)

SpecOrders == Init /\ [][NextOrders]_vars

\* shopping: the marketplace, the product page, the cart page, checkout
NextCart ==
    \/ \E c \in Shoppers : OpenMarketplace(c)
    \/ \E c \in Shoppers, id \in SeedProducts : OpenProduct(c, id)
    \/ \E c \in Shoppers : OpenCart(c)
    \/ \E c \in Shoppers, id \in SeedProducts : MarketplaceAddToCart(c, id)
    \/ \E c \in Shoppers : PDIncrement(c)
    \/ \E c \in Shoppers : PDDecrement(c)
    \/ \E c \in Shoppers : PDAddToCart(c)
    \/ \E c \in Shoppers, k \in 1..3 : CartMinus(c, k)
    \/ \E c \in Shoppers, k \in 1..3 : CartPlus(c, k)
    \/ \E c \in Shoppers, id \in SeedProducts : RemoveFromCart(c, id)
    \/ \E c \in Shoppers : ClearCart(c)
    \/ \E c \in Shoppers, method \in {"pickup", "delivery"} :
            SetDeliveryMethod(c, method)
    \/ \E c \in Shoppers, address \in Addresses : SetDeliveryAddress(c, address)
    \/ \E c \in Shoppers, ok \in BOOLEAN : ProceedToCheckout(c, ok)

SpecCart == Init /\ [][NextCart]_vars

\* the prices a producer types into the edit form
EditedPrices == {10000, 12000}

\* the cart while the producer changes the catalogue
NextCatalog ==
    \/ \E c \in Shoppers : OpenMarketplace(c)
    \/ \E c \in Shoppers, id \in SeedProducts : OpenProduct(c, id)
    \/ \E c \in Shoppers : OpenCart(c)
    \/ \E c \in Shoppers, id \in SeedProducts : MarketplaceAddToCart(c, id)
    \/ \E c \in Shoppers : PDIncrement(c)
    \/ \E c \in Shoppers : PDDecrement(c)
    \/ \E c \in Shoppers : PDAddToCart(c)
    \/ \E c \in Shoppers, k \in 1..3 : CartMinus(c, k)
    \/ \E c \in Shoppers, k \in 1..3 : CartPlus(c, k)
    \/ \E c \in Shoppers, id \in SeedProducts : RemoveFromCart(c, id)
    \/ \E c \in Shoppers : ClearCart(c)
    \/ \E c \in Shoppers, method \in {"pickup", "delivery"} :
            SetDeliveryMethod(c, method)
    \/ \E p \in DashboardProducers, id \in SeedProducts, ok \in BOOLEAN :
            ToggleProductAvailability(p, id, ok)
    \/ \E p \in DashboardProducers, price \in EditedPrices, ok \in BOOLEAN :
            EditProduct(p, "a", price, ok)

SpecCatalog == Init /\ [][NextCatalog]_vars

\* checkout and the return from the payment processor
NextPayment ==
    \/ \E c \in Shoppers : OpenMarketplace(c)
    \/ \E c \in Shoppers, id \in SeedProducts : MarketplaceAddToCart(c, id)
    \/ \E c \in Shoppers : OpenCart(c)
    \/ \E c \in Shoppers, ok \in BOOLEAN : ProceedToCheckout(c, ok)
    \/ \E c \in Shoppers, s \in 1..MaxSessions : PayAndReturn(c, s)
    \/ \E c \in Shoppers, s \in 1..MaxSessions : CancelCheckout(c, s)
    \/ \E c \in Shoppers, hasSessionId \in BOOLEAN :
            OpenPaymentSuccess(c, hasSessionId)
    \/ \E c \in Shoppers, hasSessionId \in BOOLEAN :
          OpenPaymentSuccessSignedOut(c, hasSessionId)

SpecPayment == Init /\ [][NextPayment]_vars

\* the product put into the cart before a checkout that is looked at for
\* its commission
PricedProducts == {"a"}

\* the commission setting, the producer's breakdown and the checkout
NextPricing ==
    \/ \E value \in RateTexts, ok \in BOOLEAN :
            UpdateAdminSetting("transaction_fee_percent", value, ok)
    \/ \E p \in DashboardProducers, ok \in BOOLEAN : OpenAddProduct(p, ok)
    \/ \E p \in DashboardProducers : CloseAddProduct(p)
    \/ \E p \in DashboardProducers, price \in WatchedPrices :
            SetWatchedPrice(p, price)
    \/ \E c \in Shoppers : OpenMarketplace(c)
    \/ \E c \in Shoppers, id \in PricedProducts : MarketplaceAddToCart(c, id)
    \/ \E c \in Shoppers : OpenCart(c)
    \/ \E c \in Shoppers, ok \in BOOLEAN : ProceedToCheckout(c, ok)

SpecPricing == Init /\ [][NextPricing]_vars

\* the review forms of the product page and of the producer page
NextPlaceholder ==
    \/ \E c \in Consumers, star \in StarsClicked : SetRating(c, star)
    \/ \E c \in Consumers, id \in ReviewedProducts,
          fail \in {"none", "order", "review"} :
          ProductReviewFormSubmit(c, id, fail)
    \/ \E c \in Consumers, p \in ReviewedProducers,
          fail \in {"none", "order", "product", "review"} :
          ProducerReviewFormSubmitV1(c, p, fail)
    \/ \E c \in Consumers, p \in ReviewedProducers, ok \in BOOLEAN :
          ProducerReviewFormSubmitV2(c, p, ok)

SpecPlaceholder == Init /\ [][NextPlaceholder]_vars

\* the three review forms together: order history, product page, producer page
NextReviews ==
    \/ \E o \in 1..MaxOrders : AdminUpdateOrderStatus(o, "completed")
    \/ \E c \in Consumers, o \in 1..MaxOrders, id \in SeedProducts :
          OpenReviewForm(c, o, id)
    \/ \E c \in Consumers, star \in StarsClicked : SetRating(c, star)
    \/ \E c \in Consumers : SubmitReviewInsert(c)
    \/ \E c \in Consumers : SubmitReviewRead(c)
    \/ \E c \in Consumers : SubmitReviewWrite(c)
    \/ \E c \in PageReviewers, id \in ReviewedProducts,
          fail \in {"none", "order", "review"} :
          ProductReviewFormSubmit(c, id, fail)
    \/ \E c \in PageReviewers, p \in ReviewedProducers,
          fail \in {"none", "order", "product", "review"} :
          ProducerReviewFormSubmitV1(c, p, fail)
    \/ \E c \in PageReviewers, p \in ReviewedProducers, ok \in BOOLEAN :
          ProducerReviewFormSubmitV2(c, p, ok)

SpecReviews == Init /\ [][NextReviews]_vars

\* two consumers reviewing from their order histories at the same time
NextConcurrentReviews ==
    \/ \E c \in Consumers, o \in 1..MaxOrders, id \in SeedProducts :
          OpenReviewForm(c, o, id)
    \/ \E c \in Consumers, star \in StarsClicked : SetRating(c, star)
    \/ \E c \in Consumers : SubmitReviewInsert(c)
    \/ \E c \in Consumers : SubmitReviewRead(c)
    \/ \E c \in Consumers : SubmitReviewWrite(c)

SpecConcurrentReviews == InitCompleted /\ [][NextConcurrentReviews]_vars

\* the same two consumers when every request to the database succeeds
NextRace ==
    \/ \E c \in Consumers, o \in 1..MaxOrders, id \in SeedProducts :
          OpenReviewForm(c, o, id)
    \/ \E c \in Consumers, star \in StarsClicked : SetRating(c, star)
    \/ \E c \in Consumers : SubmitReviewInsert(c) /\ reviews' # reviews
    \/ \E c \in Consumers : SubmitReviewRead(c) /\ submitPc'[c] = "read"
    \/ \E c \in Consumers :
          /\ SubmitReviewWrite(c)
          /\ \/ producer_profiles' # producer_profiles
             \/ producer_profiles[showReviewForm[c].producerId]
                  = [rating |-> <<SumSeq(submitRead[c]), Len(submitRead[c])>>,
                     review_count |-> Len(submitRead[c])]

SpecRace == InitCompleted /\ [][NextRace]_vars

\* two consumers shopping in one browser, one signed in after the other
NextSharedBrowser ==
    \/ \E c \in Consumers : OpenMarketplace(c)
    \/ \E c \in Consumers, id \in PricedProducts : OpenProduct(c, id)
    \/ \E c \in Consumers : OpenCart(c)
    \/ \E c \in Consumers, id \in PricedProducts : MarketplaceAddToCart(c, id)
    \/ \E c \in Consumers : PDIncrement(c)
    \/ \E c \in Consumers : PDDecrement(c)
    \/ \E c \in Consumers : PDAddToCart(c)
    \/ \E c \in Consumers : PDAddToCartLegacy(c)

SpecSharedBrowser == Init /\ [][NextSharedBrowser]_vars

\* the products put into the cart before these requests
CheckoutProducts == {"a", "b"}

\* checkout requests: from the Cart page and sent to the function directly
NextCheckoutRequests ==
    \/ \E c \in Shoppers : OpenMarketplace(c)
    \/ \E c \in Shoppers, id \in CheckoutProducts : MarketplaceAddToCart(c, id)
    \/ \E c \in Shoppers : OpenCart(c)
    \/ \E c \in Shoppers, id \in CheckoutProducts : RemoveFromCart(c, id)
    \/ \E c \in Shoppers, m \in {"pickup", "delivery"} :
          SetDeliveryMethod(c, m)
    \/ \E c \in Shoppers, ok \in BOOLEAN : ProceedToCheckout(c, ok)
    \/ \E c \in Shoppers, body \in RequestBodies,
          m \in {"pickup", "delivery"}, ok \in BOOLEAN :
          InvokeCreatePayment(c, body, m, ok)

SpecCheckoutRequests == Init /\ [][NextCheckoutRequests]_vars

\* the image manager on the product's edit page
NextImages ==
    \/ FetchImages
    \/ \E n \in FilesPicked, ok \in BOOLEAN : HandleImageUpload(n, ok)
    \/ \E id \in ImageIds, ok \in BOOLEAN : HandleDeleteImage(id, ok)
    \/ \E id \in ImageIds, ok1 \in BOOLEAN, ok2 \in BOOLEAN :
          HandleSetPrimary(id, ok1, ok2)

SpecImages == Init /\ [][NextImages]_vars

\* checkout from the Cart page: filling the cart, delivery options, payment
NextCheckout ==
    \/ \E c \in Shoppers : OpenMarketplace(c)
    \/ \E c \in Shoppers, id \in CheckoutProducts : MarketplaceAddToCart(c, id)
    \/ \E c \in Shoppers : OpenCart(c)
    \/ \E c \in Shoppers, id \in CheckoutProducts : RemoveFromCart(c, id)
    \/ \E c \in Shoppers, method \in {"pickup", "delivery"} :
          SetDeliveryMethod(c, method)
    \/ \E c \in Shoppers, address \in Addresses : SetDeliveryAddress(c, address)
    \/ \E c \in Shoppers, ok \in BOOLEAN : ProceedToCheckout(c, ok)

SpecCheckout == Init /\ [][NextCheckout]_vars

----------------------------------------------------------------------------
(* Order status machine *)

ProducerStep ==
    \E p \in DashboardProducers, o \in 1..MaxOrders, s \in AdminStatuses :
        ProducerUpdateOrderStatus(p, o, s)

\* C1: every change of an order's status made by an updateOrderStatus call
\* of the producer dashboard follows an allowed edge of the state machine,
\* also when the button was rendered from a view that is no longer current.
C1_ProducerEdgesAllowed ==
    [][LET AllowedEdges ==
               {<<"pending", "confirmed">>, <<"pending", "cancelled">>,
                <<"confirmed", "completed">>, <<"confirmed", "cancelled">>}
       IN  ProducerStep =>
              \A o \in 1..Len(orders) :
                  orders'[o].status # orders[o].status
                     => <<orders[o].status, orders'[o].status>>
                            \in AllowedEdges]_vars

\* C2: completed and cancelled are terminal: no step of any actor changes
\* the status of an order whose status is completed or cancelled.
C2_TerminalStatuses ==
    [][\A o \in 1..Len(orders) :
          orders[o].status \in {"completed", "cancelled"}
             => orders'[o].status = orders[o].status]_vars

----------------------------------------------------------------------------
(* Review gate *)

\* C3: a review that references an order is inserted only if, at the moment
\* of the insert, its author is the order's consumer and the order's
\* persisted status is completed.
C3_ReviewGate ==
    [][Len(reviews') > Len(reviews) =>
          LET r == reviews'[Len(reviews')]
          IN  r.order_id # NoOrder =>
                 /\ orders'[r.order_id].consumer_id = r.consumer_id
                 /\ orders'[r.order_id].status = "completed"]_vars

\* C4: at most one review is persisted per (consumer, order, product) key:
\* a second submitReview for the same key adds no row.
C4_OneReviewPerKey ==
    \A i, j \in 1..Len(reviews) :
        (i # j /\ reviews[i].order_id # NoOrder)
           => <<reviews[i].consumer_id, reviews[i].order_id,
                reviews[i].product_id>>
              # <<reviews[j].consumer_id, reviews[j].order_id,
                  reviews[j].product_id>>

----------------------------------------------------------------------------
(* Order creation *)

\* C6: order creation is all-or-nothing: no handler run leaves an order
\* header it inserted persisted without the dependent row (the review) that
\* the same run inserts after it.
C6_OrderAllOrNothing ==
    [][Len(orders') > Len(orders) => Len(reviews') > Len(reviews)]_vars

\* C7: every persisted order's total_amount is the sum over its order lines
\* of quantity * price_per_unit, plus its delivery fee (0 when absent).
C7_TotalIsLinesPlusFee ==
    \A o \in 1..Len(orders) :
        orders[o].total_amount = LinesTotal(ItemsOf(o)) + FeeOf(orders[o])

\* an order inserted by a review form is persisted next to one with lines
C7_Witness ==
    /\ Len(orders) > Len(InitOrders)
    /\ \E o \in 1..Len(orders) : ItemsOf(o) # <<>>

----------------------------------------------------------------------------
(* Cart and checkout *)

\* the lines of a checkout session that stand for products
ProductLines(session) ==
    SelectSeq(session.line_items, LAMBDA l : l.name \in DOMAIN products)

CheckoutStep(c) == \E ok \in BOOLEAN : ProceedToCheckout(c, ok)

\* C5: whenever proceedToCheckout obtains a payment session for a cart, the
\* same run has persisted an order of that consumer with status pending and
\* one order line per cart line.
C5_OrderBeforeSession ==
    [][Len(sessions') > Len(sessions) =>
        LET s == sessions'[Len(sessions')]
        IN  \E o \in (Len(orders) + 1)..Len(orders') :
                /\ orders'[o].consumer_id = s.user_id
                /\ orders'[o].status = "pending"
                /\ Len(SelectSeq(order_items', LAMBDA i : i.order_id = o))
                     = Len(ProductLines(s))]_vars

\* C8: a checkout of a cart with products of two producers is rejected:
\* it persists nothing and creates no payment session.
C8_MixedCartRejected ==
    [][LET MixedProducerCart(items) ==
               \E j, k \in 1..Len(items) :
                   items[j].product.producer_id # items[k].product.producer_id
       IN  \A c \in Shoppers :
              (CheckoutStep(c) /\ MixedProducerCart(cartItems[c]))
                  => UNCHANGED <<orders, order_items, sessions>>]_vars

\* C9: every cart line of a product that is not made-to-order has a
\* quantity of at most the product's stock_quantity.
C9_QuantityWithinStock ==
    \A c \in Consumers : \A k \in 1..Len(cart[c]) :
        LET line == cart[c][k]
        IN  (line.product_id \in DOMAIN products
             /\ ~products[line.product_id].made_to_order)
                => line.quantity <= products[line.product_id].stock_quantity

\* C10: a made-to-order, available product can be added to the cart from
\* the marketplace and from the product page whatever its stock_quantity:
\* the Add to Cart button of a page showing it is never disabled.
C10_MadeToOrderAddable ==
    \A c \in Consumers :
        /\ \A id \in DOMAIN marketView[c] :
              (page[c] = "marketplace" /\ marketView[c][id].made_to_order
               /\ marketView[c][id].is_available)
                 => ~MarketAddDisabled(marketView[c][id])
        /\ (page[c] = "product" /\ pdProduct[c].made_to_order
            /\ pdProduct[c].is_available)
                 => ~PDAddDisabled(pdProduct[c])

----------------------------------------------------------------------------
(* Cart Aggregator *)

\* C11: no addToCart on a product whose persisted is_available is false at
\* the time of the add creates or enlarges a cart line, also when the
\* product was switched off after the consumer's page loaded it.
C11_UnavailableNotAdded ==
    [][\A c \in Shoppers :
          /\ \A id \in SeedProducts :
                MarketplaceAddToCart(c, id) => products[id].is_available
          /\ PDAddToCart(c) => products[pdProduct[c].id].is_available]_vars

\* C12: the cart holds at most one line per product; an add of a product
\* that has a line increases that line's quantity by the amount added and
\* leaves its price_per_unit and the other lines as they were, an add of a
\* product without a line appends a line with the amount added and the
\* price the products table holds for the product at that moment.
C12_AddMergesLines ==
    [][LET Merged(old, new, id, qty, price) ==
               IF \E i \in 1..Len(old) : old[i].product_id = id
               THEN /\ Len(new) = Len(old)
                    /\ \A i \in 1..Len(old) :
                          /\ new[i].product_id = old[i].product_id
                          /\ new[i].price_per_unit = old[i].price_per_unit
                          /\ new[i].quantity =
                                IF old[i].product_id = id
                                THEN old[i].quantity + qty
                                ELSE old[i].quantity
               ELSE new = Append(old, [product_id |-> id, quantity |-> qty,
                                       price_per_unit |-> price])
       IN  \A c \in Shoppers :
              /\ \A j, k \in 1..Len(cart'[c]) :
                    j # k => cart'[c][j].product_id # cart'[c][k].product_id
              /\ \A id \in SeedProducts :
                    MarketplaceAddToCart(c, id)
                       => Merged(cart[c], cart'[c], id, 1, products[id].price)
              /\ PDAddToCart(c)
                    => Merged(cart[c], cart'[c], pdProduct[c].id,
                              pdQuantity[c],
                              products[pdProduct[c].id].price)]_vars

\* C13: updateCartQuantity(product, q) removes the product's line when
\* q <= 0; when q > 0 the line's quantity becomes min(q, stock_quantity) for
\* a stock-tracked product and q for a made-to-order one, the line keeps its
\* position and price, and the other lines are unchanged.
C13_SetQuantityClamps ==
    [][LET SetTo(old, new, k, q) ==
               IF q <= 0
               THEN new = [j \in 1..(Len(old) - 1) |->
                              IF j < k THEN old[j] ELSE old[j + 1]]
               ELSE /\ Len(new) = Len(old)
                    /\ \A j \in 1..Len(old) :
                          new[j] =
                            IF j # k THEN old[j]
                            ELSE [old[j] EXCEPT !.quantity =
                                    IF products[old[j].product_id].made_to_order
                                    THEN q
                                    ELSE Min(q, products[old[j].product_id]
                                                    .stock_quantity)]
       IN  \A c \in Shoppers : \A k \in 1..Len(cartItems[c]) :
              /\ CartMinus(c, k)
                    => SetTo(cartItems[c], cartItems'[c], k,
                             cartItems[c][k].quantity - 1)
              /\ CartPlus(c, k)
                    => SetTo(cartItems[c], cartItems'[c], k,
                             cartItems[c][k].quantity + 1)]_vars

\* C14: after removeFromCart(p), updateCartQuantity(p, q) with q <= 0 or
\* clearCart, product p has no line in the page's cart or in the stored
\* cart and getSubtotal is the subtotal of the lines of the other products;
\* removing a product again leaves the cart as the first removal left it.
C14_RemovedContributesNothing ==
    [][\A c \in Shoppers : \A id \in SeedProducts :
          LET Others(items) ==
                  SelectSeq(items, LAMBDA item : item.product_id # id)
              Gone ==
                  /\ \A k \in 1..Len(cartItems'[c]) :
                        cartItems'[c][k].product_id # id
                  /\ \A k \in 1..Len(cart'[c]) : cart'[c][k].product_id # id
                  /\ RemovedFrom(cartItems'[c], id) = cartItems'[c]
              Drops ==
                  \/ RemoveFromCart(c, id)
                  \/ \E k \in 1..Len(cartItems[c]) :
                        /\ cartItems[c][k].product_id = id
                        /\ cartItems[c][k].quantity - 1 <= 0
                        /\ CartMinus(c, k)
          IN  /\ Drops => /\ Gone
                          /\ cartItems'[c] = Others(cartItems[c])
                          /\ getSubtotal(cartItems'[c])
                                = getSubtotal(Others(cartItems[c]))
              /\ ClearCart(c) => /\ Gone
                                 /\ getSubtotal(cartItems'[c]) = 0]_vars

\* the cart page after the last line was dropped: the delivery method was
\* chosen while the cart still had a line, and nothing is left of it
C14_Witness ==
    \E c \in Shoppers :
        /\ page[c] = "cart"
        /\ deliveryMethod[c] = "delivery"
        /\ cartItems[c] = <<>>
        /\ cart[c] = <<>>
        /\ getSubtotal(cartItems[c]) = 0

----------------------------------------------------------------------------
(* Payment flow *)

\* C15: the payment flow empties a consumer's stored cart only as the side
\* effect of a payment confirmed in that step for a checkout session of
\* that cart, hence once per purchase; a cancelled checkout leaves the
\* stored cart unchanged.
C15_CartClearedOnlyWhenPaid ==
    [][\A c \in Shoppers :
          /\ (page'[c] = "payment-success" /\ cart[c] # <<>>
              /\ cart'[c] = <<>>)
                => \E s \in paid' \ paid :
                      /\ sessions[s].user_id = c
                      /\ LET lines == ProductLines(sessions[s])
                         IN  /\ Len(lines) = Len(cart[c])
                             /\ \A k \in 1..Len(lines) :
                                   /\ lines[k].name = cart[c][k].product_id
                                   /\ lines[k].quantity = cart[c][k].quantity
          /\ (\E s \in 1..MaxSessions : CancelCheckout(c, s))
                => cart'[c] = cart[c]]_vars

----------------------------------------------------------------------------
(* Pricing Calculator *)

\* C16: for a non-negative price and a commission rate in 0..100 the
\* commission and the earnings of the breakdown, as amounts in grosz, add up
\* to the price exactly; the commission at rate 0 is 0 and the earnings at
\* rate 100 are 0.
C16_CommissionPlusEarnings ==
    \A p \in Producers :
        LET form == addProduct[p]
        IN  (form.open /\ form.price >= 0 /\ form.commissionRate \in 0..100)
              => /\ ShownCommission(form) + ShownEarnings(form) = form.price
                 /\ form.commissionRate = 0 => ShownCommission(form) = 0
                 /\ form.commissionRate = 100 => ShownEarnings(form) = 0

\* C17: a commission rate outside 0..100 is never stored by the admin
\* settings update and never used: not by the producer's breakdown, not in
\* the commission of a checkout session.
C17_RateWithinRange ==
    /\ \A key \in DOMAIN admin_settings :
          ParseFloat(admin_settings[key]) \in 0..100
    /\ \A p \in Producers :
          addProduct[p].open => addProduct[p].commissionRate \in 0..100
    /\ \A s \in 1..Len(sessions) :
          sessions[s].metadata.commission_rate \in 0..100

\* C18: once the admin has saved a new commission rate, the next checkout
\* session's commission and the next breakdown a producer loads are both
\* computed with the rate saved.
C18_NewRateTakesEffect ==
    [][LET saved == admin_settings["transaction_fee_percent"]
       IN  saved # InitAdminSettings["transaction_fee_percent"]
              => /\ Len(sessions') > Len(sessions)
                    => LET m == sessions'[Len(sessions')].metadata
                       IN  /\ m.commission_rate = ParseFloat(saved)
                           /\ m.commission_amount =
                                ToFixed2(commissionAmount(m.subtotal,
                                                          ParseFloat(saved)))
                 /\ \A p \in DashboardProducers :
                       OpenAddProduct(p, TRUE)
                          => addProduct'[p].commissionRate
                                = ParseFloat(saved)]_vars

\* C19: every persisted review has a rating in 1..5 and the rating of an open
\* form is in 0..5; a step that adds a review row is taken by a consumer
\* whose form rating is in 1..5 and stores that rating, so no submit path
\* inserts while the rating is 0.
C19_RatingInRange ==
    [][ /\ \A c \in Consumers : rating'[c] \in 0..5
        /\ \A k \in 1..Len(reviews') : reviews'[k].rating \in 1..5
        /\ reviews' # reviews =>
              /\ Len(reviews') = Len(reviews) + 1
              /\ SubSeq(reviews', 1, Len(reviews)) = reviews
              /\ \E c \in Consumers :
                    /\ rating[c] \in 1..5
                    /\ reviews'[Len(reviews')].consumer_id = c
                    /\ reviews'[Len(reviews')].rating = rating[c] ]_vars

\* reviews of one star and of five stars are stored, one through the order
\* review form and one through a form of the product or producer page
C19_Witness ==
    /\ Len(reviews) = 2
    /\ {reviews[1].rating, reviews[2].rating} = {1, 5}
    /\ \E k \in 1..2 : \E i \in 1..Len(order_items) :
          order_items[i].order_id = reviews[k].order_id
    /\ \E k \in 1..2 : \A i \in 1..Len(order_items) :
          order_items[i].order_id # reviews[k].order_id

\* C20: whenever no submission is in flight, every producer who has reviews
\* (each stored by a submission that completed successfully, through any of
\* the three forms) has a persisted review_count equal to the number of
\* those reviews and a persisted rating equal to their arithmetic mean.
C20_SummaryMatchesReviews ==
    (\A c \in Consumers : submitPc[c] = "idle")
       => \A p \in Producers :
             LET ratings == RatingsOf(p)
                 summary == producer_profiles[p]
             IN  ratings # <<>>
                    => /\ summary.review_count = Len(ratings)
                       /\ summary.rating[1] * Len(ratings)
                             = SumSeq(ratings) * summary.rating[2]

\* C21: the rating recomputation is idempotent: a recomputation that read
\* the producer's current reviews, run after another one already wrote the
\* summary of the same reviews, writes the same rating and the same count,
\* and what a recomputation writes depends only on the reviews it read.
C21_RecomputeIdempotent ==
    [][\A c \in Consumers :
          (submitPc[c] = "read" /\ SubmitReviewWrite(c))
             => LET p == showReviewForm[c].producerId
                    read == submitRead[c]
                    written == [rating |-> <<SumSeq(read), Len(read)>>,
                                review_count |-> Len(read)]
                IN  /\ producer_profiles'[p] \in {producer_profiles[p], written}
                    /\ (/\ read = RatingsOf(p)
                        /\ producer_profiles[p].review_count = Len(read)
                        /\ producer_profiles[p].rating[1]
                             * Len(read)
                             = SumSeq(read) * producer_profiles[p].rating[2])
                         => /\ producer_profiles'[p].review_count
                                 = producer_profiles[p].review_count
                            /\ producer_profiles'[p].rating[1]
                                 * producer_profiles[p].rating[2]
                                 = producer_profiles[p].rating[1]
                                    * producer_profiles'[p].rating[2]]_vars

\* one recomputation wrote the summary of two reviews of p1 and a second
\* one has read the same two reviews
C21_Witness ==
    /\ Len(RatingsOf("p1")) = 2
    /\ producer_profiles["p1"].review_count = 2
    /\ \E c \in Consumers :
          /\ submitPc[c] = "read"
          /\ showReviewForm[c].producerId = "p1"
          /\ submitRead[c] = RatingsOf("p1")

\* C22: two submitReview calls for the same producer can race: a call that
\* writes the summary of reviews it read before the other call's insert
\* leaves a review_count that differs from the number of the producer's
\* persisted reviews; with every request succeeding, the interleaving ends
\* with both calls finished and the summary stale (the witness).
C22_StaleReadWritesStaleSummary ==
    [][\A c \in Consumers :
          (/\ submitPc[c] = "read"
           /\ SubmitReviewWrite(c)
           /\ submitRead[c] # RatingsOf(showReviewForm[c].producerId)
           /\ producer_profiles' # producer_profiles)
             => LET p == showReviewForm[c].producerId
                IN  /\ producer_profiles'[p].review_count = Len(submitRead[c])
                    /\ producer_profiles'[p].review_count
                          # Len(RatingsOf(p))]_vars

\* both consumers' calls have finished, p1 has their two reviews, and the
\* persisted summary counts one review with the mean of that one review
C22_Witness ==
    /\ \A c \in Consumers : submitPc[c] = "idle"
    /\ Len(reviews) = 2
    /\ {reviews[1].consumer_id, reviews[2].consumer_id} = Consumers
    /\ \A k \in 1..2 : reviews[k].producer_id = "p1"
    /\ reviews[1].rating # reviews[2].rating
    /\ producer_profiles["p1"].review_count = 1
    /\ producer_profiles["p1"].rating[1] * 2
          # SumSeq(RatingsOf("p1")) * producer_profiles["p1"].rating[2]

\* C23: every add-to-cart of a signed-in consumer adds to that consumer's
\* own storage entry, the one the consumer's Cart page reads, and changes
\* no other storage entry: not another consumer's cart and not an entry
\* shared by the consumers of the browser.
C23_CartScopedPerConsumer ==
    [][\A c \in Consumers :
          (\/ \E id \in PricedProducts : MarketplaceAddToCart(c, id)
           \/ PDAddToCart(c)
           \/ PDAddToCartLegacy(c))
             => /\ TotalQuantity(cart'[c]) > TotalQuantity(cart[c])
                /\ EnrichedCart(cart'[c]) # EnrichedCart(cart[c])
                /\ \A d \in Consumers \ {c} : cart'[d] = cart[d]
                /\ legacyCart' = legacyCart]_vars

\* C24: a create-payment request whose cartItems is missing or empty gets
\* an error response and creates no payment session; the Cart page sends
\* no checkout request while its cart has no lines; so no payment session
\* is ever without a product line.
C24_EmptyCartRejected ==
    [][/\ \A c \in Shoppers, m \in {"pickup", "delivery"}, ok \in BOOLEAN :
            \A body \in {b \in RequestBodies : b = <<>> \/ b[1] = <<>>} :
               InvokeCreatePayment(c, body, m, ok)
                  => /\ sessions' = sessions
                     /\ response'[c] = "error"
       /\ \A c \in Shoppers, ok \in BOOLEAN :
            ProceedToCheckout(c, ok) => cartItems[c] # <<>>
       /\ \A s \in 1..Len(sessions') :
            ProductLines(sessions'[s]) # <<>>]_vars

\* the function answered a request with an error, no session exists, and
\* the Cart page is open on a cart emptied by a removal
C24_Witness ==
    \E c \in Shoppers :
       /\ response[c] = "error"
       /\ sessions = <<>>
       /\ page[c] = "cart"
       /\ cartItems[c] = <<>>
       /\ cart[c] = <<>>
       /\ deliveryMethod[c] = "delivery"

\* C25: a review submission through the form of the product page or of the
\* producer page leaves the orders table and the products table unchanged,
\* and a review submitted on the producer page is stored with no product
\* and no order reference.
C25_NoPlaceholderRows ==
    [][\A c \in Consumers :
          /\ \A id \in ReviewedProducts, fail \in {"none", "order", "review"} :
                ProductReviewFormSubmit(c, id, fail)
                   => orders' = orders /\ products' = products
          /\ \A p \in ReviewedProducers :
                (\/ \E fail \in {"none", "order", "product", "review"} :
                       ProducerReviewFormSubmitV1(c, p, fail)
                 \/ \E ok \in BOOLEAN : ProducerReviewFormSubmitV2(c, p, ok))
                   => /\ orders' = orders
                      /\ products' = products
                      /\ reviews' # reviews
                            => /\ reviews'[Len(reviews')].product_id = NULL
                               /\ reviews'[Len(reviews')].order_id = NoOrder]_vars

\* C26: the persisted status of every order is always one of pending,
\* confirmed, completed and cancelled, whatever status updates the producer
\* dashboard and the admin dashboard made.
C26_StatusInDomain ==
    \A o \in 1..Len(orders) :
       orders[o].status \in {"pending", "confirmed", "completed", "cancelled"}

\* C27: whenever the product has at least one image, exactly one of its
\* images is marked primary, after any sequence of uploads, deletions and
\* changes of the primary image.
C27_ExactlyOnePrimary ==
    DOMAIN product_images # {}
       => Cardinality({i \in DOMAIN product_images : product_images[i]}) = 1

\* C28: once the review row is inserted, submitReview ends with the success
\* message and the callback that closes the form only when it has read the
\* producer's reviews and written the summary of what it read; a failed
\* read or a failed write is not reported as a success.
C28_NoSwallowedFailure ==
    [][\A c \in Consumers :
          (/\ submitPc[c] \in {"inserted", "read"}
           /\ showReviewForm[c] # NoForm
           /\ showReviewForm'[c] = NoForm
           /\ submitPc'[c] = "idle")
             => /\ submitPc[c] = "read"
                /\ producer_profiles'[showReviewForm[c].producerId]
                     = [rating |-> <<SumSeq(submitRead[c]),
                                     Len(submitRead[c])>>,
                        review_count |-> Len(submitRead[c])]]_vars

C30_LoadingEnds ==
    \A c \in Consumers : page[c] = "payment-success" => ~loading[c]

====
